---- MODULE Spec2Model ----
(***************************************************************************)
(* Model of src/testing-api/main.py: the paginated fetch of Pipeline       *)
(* (api_fetch), the batch jobs that drive it (upload_api_to_bigquery,      *)
(* save_everything_locally) and the JSON persistence of Data               *)
(* (save_to_json).                                                         *)
(*                                                                         *)
(* Text is a sequence of one-character strings, so that lower(), split(),  *)
(* strip(), int() and str() are computed and not assumed.                  *)
(* A fetched DataFrame is a sequence of chunks <<page, n>>: the n rows of  *)
(* the response to the page-th request, in server order.  A persisted      *)
(* DataFrame is the sequence of the 'id' cells of its rows.                *)
(***************************************************************************)
EXTENDS Integers, Sequences, FiniteSets, TLC

VARIABLES
    job,                      \* which batch job runs
    job_pc,                   \* "running" | "finished" | "raised"
    table,                    \* index into zip(urls, queries, table_ids)
    attempted,                \* tables whose api_fetch was called
    outcomes,                 \* per handled table: "uploaded" | "skipped" | "saved"
    pc,                       \* api_fetch: "idle" | "fetching" | "returned" | "raised"
    query,                    \* api_fetch argument (text)
    query_clauses,            \* the clauses the text was written from
    query_properties,         \* dict parsed from the query
    paged_query_properties,   \* dict rewritten per page
    query_limit,              \* Optional int
    offset,
    all_data,
    requests,                 \* paged_query texts posted, in order
    responses,                \* what the executor answered, in order
    result,                   \* value api_fetch returned
    file,                     \* contents of the JSON file
    data,                     \* Data.data of the instance being saved
    last_save                 \* the last Data call, how it ended, and whether it
                              \* repeated the call before it on the same data

fetch_vars == <<pc, query, query_clauses, query_properties, paged_query_properties,
                query_limit, offset, all_data, requests, responses, result>>
job_vars == <<job, job_pc, table, attempted, outcomes>>
save_vars == <<file, data, last_save>>
vars == <<job_vars, fetch_vars, save_vars>>

-----------------------------------------------------------------------------
(* Bounds of the model *)

MaxPages == 4      \* page requests per api_fetch call
MaxTables == 2     \* entries of zip(urls, queries, table_ids)
MaxBatch == 2      \* rows of a Data instance that is saved
MaxFileLen == 3    \* rows of the JSON file

(* Program constant *)
ROW_INTERVAL == 500

-----------------------------------------------------------------------------
(* Text *)

UpperCase == <<"A","B","C","D","E","F","G","H","I","J","K","L","M",
               "N","O","P","Q","R","S","T","U","V","W","X","Y","Z">>
LowerCase == <<"a","b","c","d","e","f","g","h","i","j","k","l","m",
               "n","o","p","q","r","s","t","u","v","w","x","y","z">>
Digits == <<"0","1","2","3","4","5","6","7","8","9">>

LowerChar(c) ==
    IF \E i \in 1..26 : UpperCase[i] = c
    THEN LowerCase[CHOOSE i \in 1..26 : UpperCase[i] = c]
    ELSE c

\* str.lower()
Lower(s) == [i \in 1..Len(s) |-> LowerChar(s[i])]

IsSpace(c) == c = " "

RECURSIVE LStrip(_)
LStrip(s) == IF s # <<>> /\ IsSpace(Head(s)) THEN LStrip(Tail(s)) ELSE s

RECURSIVE RStrip(_)
RStrip(s) ==
    IF s # <<>> /\ IsSpace(s[Len(s)]) THEN RStrip(SubSeq(s, 1, Len(s) - 1)) ELSE s

\* str.strip()
Strip(s) == RStrip(LStrip(s))

\* str.split(sep): always at least one segment
RECURSIVE Split(_, _)
Split(s, sep) ==
    IF \E i \in 1..Len(s) : s[i] = sep
    THEN LET i == CHOOSE k \in 1..Len(s) :
                      s[k] = sep /\ \A m \in 1..(k - 1) : s[m] # sep
         IN  <<SubSeq(s, 1, i - 1)>> \o Split(SubSeq(s, i + 1, Len(s)), sep)
    ELSE <<s>>

\* str.split(maxsplit=1): split on the first run of whitespace
SplitMax1(s) ==
    LET t == LStrip(s) IN
    IF t = <<>> THEN <<>>
    ELSE IF \E i \in 1..Len(t) : IsSpace(t[i])
    THEN LET i == CHOOSE k \in 1..Len(t) :
                      IsSpace(t[k]) /\ \A m \in 1..(k - 1) : ~IsSpace(t[m])
             rest == LStrip(SubSeq(t, i, Len(t)))
         IN  IF rest = <<>> THEN <<SubSeq(t, 1, i - 1)>>
             ELSE <<SubSeq(t, 1, i - 1), rest>>
    ELSE <<t>>

RECURSIVE Join(_, _)
Join(parts, sep) ==
    IF parts = <<>> THEN <<>>
    ELSE IF Len(parts) = 1 THEN parts[1]
    ELSE parts[1] \o sep \o Join(Tail(parts), sep)

IsDigit(c) == \E i \in 1..10 : Digits[i] = c
DigitVal(c) == (CHOOSE i \in 1..10 : Digits[i] = c) - 1

RECURSIVE DigitsToNat(_)
DigitsToNat(s) ==
    IF s = <<>> THEN 0
    ELSE 10 * DigitsToNat(SubSeq(s, 1, Len(s) - 1)) + DigitVal(s[Len(s)])

RECURSIVE NatToDigits(_)
NatToDigits(n) ==
    IF n < 10 THEN <<Digits[n + 1]>>
    ELSE NatToDigits(n \div 10) \o <<Digits[(n % 10) + 1]>>

\* str(int)
IntToStr(n) == IF n < 0 THEN <<"-">> \o NatToDigits(-n) ELSE NatToDigits(n)

\* int(str) accepts an optional sign and digits; anything else is a ValueError
IsIntText(s) ==
    LET body == IF s # <<>> /\ s[1] = "-" THEN Tail(s) ELSE s
    IN  body # <<>> /\ \A i \in 1..Len(body) : IsDigit(body[i])

StrToInt(s) ==
    IF s[1] = "-" THEN -DigitsToNat(Tail(s)) ELSE DigitsToNat(s)

-----------------------------------------------------------------------------
(* dict: a sequence of <<key, value>> pairs in insertion order *)

DictHas(d, k) == \E i \in 1..Len(d) : d[i][1] = k
DictGet(d, k) == d[CHOOSE i \in 1..Len(d) : d[i][1] = k][2]
DictSet(d, k, v) ==
    IF DictHas(d, k)
    THEN [i \in 1..Len(d) |-> IF d[i][1] = k THEN <<k, v>> ELSE d[i]]
    ELSE Append(d, <<k, v>>)
DictItems(d) == {d[i] : i \in 1..Len(d)}

RECURSIVE DictFrom(_)
DictFrom(pairs) ==
    IF pairs = <<>> THEN <<>>
    ELSE LET p == pairs[Len(pairs)]
         IN  DictSet(DictFrom(SubSeq(pairs, 1, Len(pairs) - 1)), p[1], p[2])

-----------------------------------------------------------------------------
(* Query parsing and rebuilding *)

\* query.lower().split(";")[:-1], each segment stripped and split once
QuerySegments(q) ==
    LET segs == Split(Lower(q), ";")
    IN  [i \in 1..(Len(segs) - 1) |-> SplitMax1(Strip(segs[i]))]

\* sub_seg[1] raises IndexError for a segment without a value
ParseRaises(q) == \E i \in 1..Len(QuerySegments(q)) : Len(QuerySegments(q)[i]) < 2

ParseQuery(q) ==
    LET subs == QuerySegments(q)
    IN  DictFrom([i \in 1..Len(subs) |-> <<Strip(subs[i][1]), Strip(subs[i][2])>>])

\* " ".join([f"{key} {value};" ...])
SerializeQuery(d) ==
    Join([i \in 1..Len(d) |-> d[i][1] \o <<" ">> \o d[i][2] \o <<";">>], <<" ">>)

-----------------------------------------------------------------------------
(* Queries handed to api_fetch *)

UpperChar(c) ==
    IF \E i \in 1..26 : LowerCase[i] = c
    THEN UpperCase[CHOOSE i \in 1..26 : LowerCase[i] = c]
    ELSE c

KwFields == <<"f","i","e","l","d","s">>
KwWhere == <<"w","h","e","r","e">>
KwLimit == <<"l","i","m","i","t">>
KwOffset == <<"o","f","f","s","e","t">>

Clause(k, v) == [kw |-> k, val |-> v]

ClauseFields == Clause(KwFields, <<"n","a","m","e">>)
ClauseWhere == Clause(KwWhere, <<"s","l","u","g"," ","="," ","\"","Z","e","l","d","a","\"">>)
ClauseLimit(n) == Clause(KwLimit, IntToStr(n))

\* total limits asked for; 0 is the limit Python treats as false
Limits == {0, 150, 500, 650, 1200}

WellFormedClauseLists ==
    {<<ClauseFields>>, <<ClauseFields, ClauseWhere>>}
        \cup {<<ClauseFields, ClauseLimit(n)>> : n \in Limits}

\* a clause without a value, and a limit that is no number
MalformedClauseLists ==
    {<<Clause(KwFields, <<>>)>>,
     <<ClauseFields, Clause(KwLimit, <<"a","l","l">>)>>}

\* The text of a query: "<keyword> <value>" clauses separated by "; ", the
\* keyword in either case, with or without the terminating ";".
RenderQuery(clauses, upper, terminated) ==
    Join([i \in 1..Len(clauses) |->
            (IF upper THEN [j \in 1..Len(clauses[i].kw) |-> UpperChar(clauses[i].kw[j])]
                      ELSE clauses[i].kw)
            \o <<" ">> \o clauses[i].val],
         <<";", " ">>)
    \o (IF terminated THEN <<";">> ELSE <<>>)

Queries ==
    {[clauses |-> c, text |-> RenderQuery(c, u, t)] :
        c \in WellFormedClauseLists \cup MalformedClauseLists,
        u \in BOOLEAN, t \in BOOLEAN}

-----------------------------------------------------------------------------
(* Executor responses: requests.post(...).json() *)

BatchSizes == {0, 150, 300, ROW_INTERVAL}

Responses ==
    {[ok |-> FALSE, rows |-> 0]} \cup {[ok |-> TRUE, rows |-> n] : n \in BatchSizes}

-----------------------------------------------------------------------------
(* Optional values and DataFrames of fetched rows *)

None == [none |-> TRUE, frame |-> <<>>]
Some(f) == [none |-> FALSE, frame |-> f]

NoLimit == [set |-> FALSE, val |-> 0]
LimitOf(n) == [set |-> TRUE, val |-> n]

\* pd.DataFrame(response) for the response to the page-th request
DataFrameOf(page, rows) == IF rows = 0 THEN <<>> ELSE <<<<page, rows>>>>

\* pd.concat([a, b], ignore_index=True)
Concat(a, b) == a \o b

RECURSIVE FrameLen(_)
FrameLen(f) == IF f = <<>> THEN 0 ELSE f[1][2] + FrameLen(Tail(f))

\* Data.__init__: Data(None) holds an empty DataFrame
DataOf(res) == IF res.none THEN <<>> ELSE res.frame

\* Data.records
Records(d) == FrameLen(d)

-----------------------------------------------------------------------------
(* Pipeline.api_fetch *)

\* mutant: the total limit is written without comparing it to the page size
PageLimit_Unclamped(ql, off) ==
    IF ql.set /\ ql.val # 0 THEN ql.val - off ELSE ROW_INTERVAL

\* the limit written into the page request
PageLimit(ql, off) ==
    IF ql.set /\ ql.val # 0 /\ off + ROW_INTERVAL >= ql.val
    THEN ql.val - off
    ELSE ROW_INTERVAL

\* mutant: the offset counts pages instead of rows
NextOffset_ByPage(off) == off + 1

\* offset += ROW_INTERVAL
NextOffset(off) == off + ROW_INTERVAL

\* mutant: only an empty page ends the loop
ReachedEnd_OnlyEmpty(chunk_len) == chunk_len = 0

\* the loop's exit test
ReachedEnd(chunk_len) == chunk_len < ROW_INTERVAL

\* what the except clause of api_fetch does with an exception
OnException == [pc |-> "returned", result |-> None]

FetchStart(q) ==
    /\ job_pc = "running"
    /\ pc = "idle"
    /\ table <= MaxTables
    /\ attempted' = attempted \cup {table}
    /\ query' = q.text
    /\ query_clauses' = q.clauses
    /\ requests' = <<>>
    /\ responses' = <<>>
    /\ offset' = 0
    /\ all_data' = <<>>
    /\ IF ParseRaises(q.text)
       THEN /\ query_properties' = <<>>
            /\ paged_query_properties' = <<>>
            /\ query_limit' = NoLimit
            /\ pc' = OnException.pc
            /\ result' = OnException.result
       ELSE LET props == ParseQuery(q.text) IN
            /\ query_properties' = props
            /\ IF DictHas(props, KwLimit) /\ ~IsIntText(DictGet(props, KwLimit))
               THEN /\ paged_query_properties' = <<>>
                    /\ query_limit' = NoLimit
                    /\ pc' = OnException.pc
                    /\ result' = OnException.result
               ELSE /\ paged_query_properties' = props
                    /\ query_limit' = IF DictHas(props, KwLimit)
                                      THEN LimitOf(StrToInt(DictGet(props, KwLimit)))
                                      ELSE NoLimit
                    /\ pc' = "fetching"
                    /\ result' = None
    /\ UNCHANGED <<job, job_pc, table, outcomes, save_vars>>

\* One iteration of the while loop: the page request and the executor's answer.
\* The executor may answer a full page only while fewer than MaxPages requests
\* were made: it eventually answers a short or empty page, or fails.
FetchPage(r) ==
    /\ pc = "fetching"
    /\ Len(requests) < MaxPages
    /\ (Len(requests) = MaxPages - 1) => ~(r.ok /\ r.rows = ROW_INTERVAL)
    /\ LET paged == DictSet(DictSet(paged_query_properties, KwLimit,
                                    IntToStr(PageLimit(query_limit, offset))),
                            KwOffset, IntToStr(offset))
           chunk == DataFrameOf(Len(requests) + 1, r.rows)
       IN  /\ paged_query_properties' = paged
           /\ requests' = Append(requests, SerializeQuery(paged))
           /\ responses' = Append(responses, r)
           /\ IF ~r.ok
              THEN /\ pc' = OnException.pc
                   /\ result' = OnException.result
                   /\ UNCHANGED <<all_data, offset>>
              ELSE /\ all_data' = Concat(all_data, chunk)
                   /\ offset' = NextOffset(offset)
                   /\ IF ReachedEnd(FrameLen(chunk))
                      THEN /\ pc' = "returned"
                           /\ result' = Some(Concat(all_data, chunk))
                      ELSE UNCHANGED <<pc, result>>
    /\ UNCHANGED <<job_vars, query, query_clauses, query_properties, query_limit,
                   save_vars>>

-----------------------------------------------------------------------------
(* The batch jobs *)

Jobs == {"upload_api_to_bigquery", "save_everything_locally"}

\* the loop moves on to the next entry of the zip; the locals of the
\* api_fetch call that returned are gone
NextTable ==
    /\ table' = table + 1
    /\ job_pc' = IF table = MaxTables THEN "finished" ELSE "running"
    /\ pc' = "idle"
    /\ query' = <<>>
    /\ query_clauses' = <<>>
    /\ query_properties' = <<>>
    /\ paged_query_properties' = <<>>
    /\ query_limit' = NoLimit
    /\ offset' = 0
    /\ all_data' = <<>>
    /\ requests' = <<>>
    /\ responses' = <<>>
    /\ result' = None

\* an exception leaves the loop and the job
JobRaises ==
    /\ job_pc' = "raised"
    /\ UNCHANGED <<table, outcomes, fetch_vars>>

\* upload_api_to_bigquery, one entry: Data(api_fetch(...)), then
\* Pipeline.upload_to_bigquery when there are records; uploaded says whether
\* the load job succeeded (upload_to_bigquery re-raises when it did not).
UploadTable(uploaded) ==
    /\ job = "upload_api_to_bigquery"
    /\ job_pc = "running"
    /\ pc = "returned"
    /\ IF Records(DataOf(result)) > 0
       THEN IF uploaded
            THEN outcomes' = Append(outcomes, "uploaded") /\ NextTable
            ELSE JobRaises
       ELSE outcomes' = Append(outcomes, "skipped") /\ NextTable
    /\ UNCHANGED <<job, attempted, save_vars>>

\* save_everything_locally, one entry: Data(api_fetch(...)) is an object and
\* so true; saved says whether Data.save_to_json succeeded (it re-raises).
SaveTable(saved) ==
    /\ job = "save_everything_locally"
    /\ job_pc = "running"
    /\ pc = "returned"
    /\ IF saved
       THEN outcomes' = Append(outcomes, "saved") /\ NextTable
       ELSE JobRaises
    /\ UNCHANGED <<job, attempted, save_vars>>

-----------------------------------------------------------------------------
(* Specification of the fetch and the batch jobs *)

NoFile == [kind |-> "absent", rows |-> <<>>]

FetchIdle ==
    /\ pc = "idle"
    /\ query = <<>>
    /\ query_clauses = <<>>
    /\ query_properties = <<>>
    /\ paged_query_properties = <<>>
    /\ query_limit = NoLimit
    /\ offset = 0
    /\ all_data = <<>>
    /\ requests = <<>>
    /\ responses = <<>>
    /\ result = None

SaveIdle ==
    /\ file = NoFile
    /\ data = <<>>
    /\ last_save = [op |-> "init", raised |-> FALSE, fault |-> FALSE, again |-> FALSE]

Init ==
    /\ job \in Jobs
    /\ job_pc = "running"
    /\ table = 1
    /\ attempted = {}
    /\ outcomes = <<>>
    /\ FetchIdle
    /\ SaveIdle

Next ==
    \/ \E q \in Queries : FetchStart(q)
    \/ \E r \in Responses : FetchPage(r)
    \/ \E uploaded \in BOOLEAN : UploadTable(uploaded)
    \/ \E saved \in BOOLEAN : SaveTable(saved)

Spec == Init /\ [][Next]_vars

\* The page loop is synchronous: each request is answered (or fails) before
\* the next statement runs.
FairSpec == Spec /\ WF_vars(\E r \in Responses : FetchPage(r))

-----------------------------------------------------------------------------
(* Reading the posted requests and the executor's answers *)

RequestLimit(i) == StrToInt(DictGet(ParseQuery(requests[i]), KwLimit))
RequestOffset(i) == StrToInt(DictGet(ParseQuery(requests[i]), KwOffset))

FullPage(r) == r.ok /\ r.rows = ROW_INTERVAL
ShortPage(r) == r.ok /\ r.rows < ROW_INTERVAL

CeilDiv(a, b) == (a + b - 1) \div b

HasTotalLimit == query_limit.set /\ query_limit.val >= 1

\* every answer so far is a batch of at most the requested number of rows
ExecutorHonoursLimit ==
    \A i \in 1..Len(responses) : responses[i].ok /\ responses[i].rows <= RequestLimit(i)

FetchOver == pc \in {"returned", "raised"}

-----------------------------------------------------------------------------
(* Claims about api_fetch *)

\* C1: with a total limit L >= 1 and an executor that never answers more rows
\* than requested, api_fetch issues at most ceil(L / ROW_INTERVAL) page requests.
C1_AtMostCeilPages ==
    (HasTotalLimit /\ ExecutorHonoursLimit)
        => Len(requests) <= CeilDiv(query_limit.val, ROW_INTERVAL)

\* C2: when the executor fails on a page k >= 2, the rows of pages 1..k-1 are
\* not returned and the caller gets an outcome it can tell from a successful
\* fetch of zero rows (an exception, or a Data that differs from the empty one).
C2_FailureSurfaced ==
    (FetchOver /\ Len(responses) >= 2 /\ ~responses[Len(responses)].ok)
        => /\ Records(DataOf(result)) = 0
           /\ (pc = "raised" \/ DataOf(result) # DataOf(Some(<<>>)))

\* C3: an api_fetch call that is fetching eventually returns, the executor
\* eventually answering a short or empty page.
C3_FetchTerminates == (pc = "fetching") ~> (pc = "returned")

C3_Witness ==
    /\ pc = "returned"
    /\ HasTotalLimit
    /\ Len(responses) >= 3
    /\ ShortPage(responses[Len(responses)])
    /\ \A i \in 1..(Len(responses) - 1) : FullPage(responses[i])

\* C4: the limit written into any posted page request is at most ROW_INTERVAL.
C4_LimitAtMostPageSize ==
    \A i \in 1..Len(requests) : RequestLimit(i) <= ROW_INTERVAL

C4_Witness ==
    /\ Len(requests) >= 2
    /\ RequestLimit(1) = ROW_INTERVAL
    /\ RequestLimit(2) = 150

\* C7: for a terminated query of well-formed clauses, parsing and reserializing
\* keeps exactly the keyword -> value pairs of the clauses (keywords compared
\* case-folded, values unchanged).
C7_ParseRoundTrip ==
    (pc # "idle" /\ query_clauses \in WellFormedClauseLists /\ query[Len(query)] = ";")
        => DictItems(ParseQuery(SerializeQuery(query_properties)))
             = {<<Lower(query_clauses[i].kw), query_clauses[i].val>> :
                    i \in 1..Len(query_clauses)}

\* C9: without a total limit, the i-th request has offset (i-1)*ROW_INTERVAL and
\* limit ROW_INTERVAL, every answer before the last is a full page, the call
\* returns exactly when a short page arrives, and then returns the batches
\* concatenated in issue order.
C9_NoLimitPaging ==
    ~query_limit.set =>
        /\ \A i \in 1..Len(requests) :
              /\ RequestOffset(i) = (i - 1) * ROW_INTERVAL
              /\ RequestLimit(i) = ROW_INTERVAL
        /\ \A i \in 1..(Len(responses) - 1) : FullPage(responses[i])
        /\ (Len(responses) > 0 /\ responses[Len(responses)].ok) =>
              LET k == Len(responses) - 1
                  last == responses[k + 1].rows
              IN  IF last < ROW_INTERVAL
                  THEN /\ pc = "returned"
                       /\ result = Some([i \in 1..k |-> <<i, ROW_INTERVAL>>]
                                          \o (IF last > 0 THEN <<<<k + 1, last>>>> ELSE <<>>))
                       /\ Records(DataOf(result)) = k * ROW_INTERVAL + last
                  ELSE pc = "fetching"

C9_Witness ==
    /\ ~query_limit.set
    /\ pc = "returned"
    /\ Len(requests) = 4
    /\ responses[4].ok /\ responses[4].rows = 300
    /\ Records(DataOf(result)) = 1800

\* C10: with a total limit L that is no multiple of ROW_INTERVAL and
\* n = L div ROW_INTERVAL full first pages, pages 1..n ask for ROW_INTERVAL rows
\* at offsets 0, ROW_INTERVAL, ..., page n+1 asks for L - n*ROW_INTERVAL rows at
\* offset n*ROW_INTERVAL, and the call is over after page n+1 whatever it returns.
C10_LastPageEndsLoop ==
    LET L == query_limit.val
        n == L \div ROW_INTERVAL
    IN  (/\ HasTotalLimit
         /\ L % ROW_INTERVAL # 0
         /\ \A i \in 1..n : i <= Len(responses) => FullPage(responses[i]))
        => /\ \A i \in 1..Len(requests) :
                 i <= n + 1 =>
                    /\ RequestOffset(i) = (i - 1) * ROW_INTERVAL
                    /\ RequestLimit(i) = IF i <= n THEN ROW_INTERVAL
                                                   ELSE L - n * ROW_INTERVAL
           /\ Len(requests) <= n + 1
           /\ Len(requests) = n + 1 => FetchOver

-----------------------------------------------------------------------------
(* Claims about the batch jobs *)

\* C5: a batch job that is over, normally or by an exception, has processed
\* every entry of its list.
C5_BatchProcessesEveryTable ==
    job_pc \in {"finished", "raised"} => attempted = 1..MaxTables

-----------------------------------------------------------------------------
(* Data: DataFrames of records and the JSON file *)

\* A record is modelled by its 'id' cell: an id, "nan" (the column exists and
\* the cell is missing) or "none" (the record has no 'id' key).
IdCells == {"1", "2"}
RawCells == IdCells \cup {"none"}

\* pd.DataFrame(list of records): the columns are the union of the keys, a
\* record without the key gets NaN
FrameOf(rows) ==
    IF \E i \in 1..Len(rows) : rows[i] # "none"
    THEN [i \in 1..Len(rows) |-> IF rows[i] = "none" THEN "nan" ELSE rows[i]]
    ELSE rows

\* pd.concat([existing_data, self.data])
ConcatFrames(a, b) == FrameOf(a \o b)

HasIdColumn(f) == \E i \in 1..Len(f) : f[i] # "none"

\* drop_duplicates(subset=['id']) raises KeyError on a frame with rows and no
\* 'id' column; an empty frame is returned as it is
DropDuplicatesRaises(f) == f # <<>> /\ ~HasIdColumn(f)

\* mutant: the duplicates are kept
DropDuplicates_KeepAll(f) == f

RECURSIVE DropDuplicates(_)
DropDuplicates(f) ==
    IF f = <<>> THEN <<>>
    ELSE LET init == SubSeq(f, 1, Len(f) - 1)
             last == f[Len(f)]
         IN  IF \E i \in 1..Len(init) : init[i] = last
             THEN DropDuplicates(init)
             ELSE Append(DropDuplicates(init), last)

RECURSIVE SeqsUpTo(_, _)
SeqsUpTo(S, n) ==
    IF n = 0 THEN {<<>>}
    ELSE SeqsUpTo(S, n - 1)
            \cup {Append(s, x) : s \in {t \in SeqsUpTo(S, n - 1) : Len(t) = n - 1}, x \in S}

\* the frames a Data instance is given
Batches == {FrameOf(s) : s \in SeqsUpTo(RawCells, MaxBatch)}

JsonFile(rows) == [kind |-> "json", rows |-> rows]
EmptyFile == [kind |-> "empty", rows |-> <<>>]        \* opened with "w", nothing written
PartialFile == [kind |-> "partial", rows |-> <<>>]    \* json.dump stopped part-way

\* json.dump(frame.to_dict(orient='records'), f) into the file just opened
\* with "w"; dump_fails: the serialization or the write raises
Dump(f, dump_fails) ==
    IF dump_fails THEN [file |-> PartialFile, raised |-> TRUE]
    ELSE [file |-> JsonFile(f), raised |-> FALSE]

\* Data.save_to_json: the file it leaves and whether it raised
SaveOutcome(old, d, append, exclude_duplicates, dump_fails) ==
    IF append
    THEN IF old.kind # "json"
         THEN [file |-> old, raised |-> TRUE]          \* open(.., "r") or json.load raises
         ELSE LET combined == ConcatFrames(FrameOf(old.rows), d) IN
              IF exclude_duplicates
              THEN IF DropDuplicatesRaises(combined)
                   THEN [file |-> EmptyFile, raised |-> TRUE]
                   ELSE Dump(DropDuplicates(combined), dump_fails)
              ELSE Dump(combined, dump_fails)
    ELSE Dump(d, dump_fails)

SaveOp(append, exclude_duplicates) ==
    IF ~append THEN "overwrite"
    ELSE IF exclude_duplicates THEN "append_dedup" ELSE "append"

\* Data.data setter
SetData(b) ==
    /\ data' = b
    /\ last_save' = [op |-> "set", raised |-> FALSE, fault |-> FALSE, again |-> FALSE]
    /\ UNCHANGED <<file, job_vars, fetch_vars>>

SaveToJson(append, exclude_duplicates, dump_fails) ==
    LET out == SaveOutcome(file, data, append, exclude_duplicates, dump_fails) IN
    /\ Len(out.file.rows) <= MaxFileLen
    /\ file' = out.file
    /\ last_save' = [op |-> SaveOp(append, exclude_duplicates),
                     raised |-> out.raised, fault |-> dump_fails,
                     again |-> /\ last_save.op = SaveOp(append, exclude_duplicates)
                               /\ ~last_save.fault /\ ~dump_fails]
    /\ UNCHANGED <<data, job_vars, fetch_vars>>

\* Data.load_from_json
LoadFromJson ==
    /\ IF file.kind = "json"
       THEN /\ data' = FrameOf(file.rows)
            /\ last_save' = [op |-> "load", raised |-> FALSE, fault |-> FALSE, again |-> FALSE]
       ELSE /\ data' = data
            /\ last_save' = [op |-> "load", raised |-> TRUE, fault |-> FALSE, again |-> FALSE]
    /\ UNCHANGED <<file, job_vars, fetch_vars>>

SaveInit ==
    /\ job = "save_everything_locally"
    /\ job_pc = "running"
    /\ table = 1
    /\ attempted = {}
    /\ outcomes = <<>>
    /\ FetchIdle
    /\ file = NoFile
    /\ data = <<>>
    /\ last_save = [op |-> "init", raised |-> FALSE, fault |-> FALSE, again |-> FALSE]

SaveNext ==
    \/ \E b \in Batches : SetData(b)
    \/ \E a \in BOOLEAN, e \in BOOLEAN, f \in BOOLEAN : SaveToJson(a, e, f)
    \/ LoadFromJson

SaveSpec == SaveInit /\ [][SaveNext]_vars

-----------------------------------------------------------------------------
(* Claims about save_to_json *)

IsSave(s) == s.op \in {"overwrite", "append", "append_dedup"}

\* C6: a save_to_json call that raises leaves the file as it was, and one that
\* returns leaves the complete new array.
C6_SaveAllOrNothing ==
    [][IsSave(last_save') =>
          IF last_save'.raised THEN file' = file ELSE file'.kind = "json"]_vars

OnePerId(rows) == \A i, j \in 1..Len(rows) : rows[i] = rows[j] => i = j

\* C8: a deduplicating append that returns leaves at most one record per id,
\* and a second deduplicating append of the same batch, neither call hit by a
\* write failure, leaves the file as the first left it.
C8_DedupIdempotent ==
    [][(last_save'.op = "append_dedup" /\ ~last_save'.fault) =>
          /\ ~last_save'.raised => OnePerId(file'.rows)
          /\ (last_save.op = "append_dedup" /\ ~last_save.fault) => file' = file]_vars

\* a second deduplicating append of a two-record batch that returned, on a
\* file whose third record came from that batch
C8_Witness ==
    /\ last_save.op = "append_dedup"
    /\ last_save.again
    /\ ~last_save.raised
    /\ Len(data) = 2
    /\ Len(file.rows) = 3
    /\ \E i \in 1..Len(data) : file.rows[3] = data[i]

====
